---- MODULE Spec2Model ----
(***************************************************************************)
(* A model of ino's `build' command (src/ino/commands/build.py): the      *)
(* pipeline Build.run = discover; setup_flags; create_jinja;              *)
(* make('Makefile.sketch'); scan_dependencies; make('Makefile').          *)
(*                                                                         *)
(* Paths and flag tokens are sequences of strings (the pieces the code    *)
(* joins with os.path.join or concatenates with +).  A command-line       *)
(* string is a sequence of one-character strings.                         *)
(***************************************************************************)
EXTENDS Integers, Sequences, FiniteSets, TLC

(***************************************************************************)
(* Bounds of the model.                                                    *)
(***************************************************************************)
\* most library directories in <project>/lib and <dist>/libraries together
MaxLibs == 1
\* most pieces (words, spaces, quotes) of the --cppflags argument
MaxArgLen == 3

(***************************************************************************)
(* Generic helpers on sequences.                                           *)
(***************************************************************************)
Range(s) == {s[n] : n \in 1..Len(s)}

NoDup(s) == \A m, n \in 1..Len(s) : m # n => s[m] # s[n]

\* position of x in s (0 when absent); the first one when s repeats x
IndexOf(s, x) == IF x \in Range(s) THEN CHOOSE n \in 1..Len(s) : s[n] = x /\ \A m \in 1..(n-1) : s[m] # x ELSE 0

\* all orders in which a finite set can be listed
RECURSIVE Orderings(_)
Orderings(S) == IF S = {} THEN {<<>>} ELSE UNION {{<<x>> \o t : t \in Orderings(S \ {x})} : x \in S}

\* the strings of at most n characters over an alphabet
RECURSIVE StringsUpTo(_, _)
StringsUpTo(alphabet, n) == IF n = 0 THEN {<<>>} ELSE LET shorter == StringsUpTo(alphabet, n - 1) IN shorter \cup {s \o <<c>> : s \in shorter, c \in alphabet}

\* the concatenation of a sequence of sequences
RECURSIVE Flatten(_)
Flatten(ss) == IF ss = <<>> THEN <<>> ELSE Head(ss) \o Flatten(Tail(ss))

(***************************************************************************)
(* Board profiles (self.e.board_model): arch and the build.* keys.  `has' *)
(* lists the optional build keys the profile defines; extra_flags is a    *)
(* string of pieces (see below).                                          *)
(***************************************************************************)
BoardModels == [
    uno      |-> [arch |-> "avr", mcu |-> "atmega328p", f_cpu |-> "16000000L", board |-> "AVR_UNO",
                  variant |-> "standard", has |-> {}, vid |-> "", pid |-> "", extra_flags |-> <<>>],
    leonardo |-> [arch |-> "avr", mcu |-> "atmega32u4", f_cpu |-> "16000000L", board |-> "AVR_LEONARDO",
                  variant |-> "leonardo", has |-> {"vid", "pid", "extra_flags"}, vid |-> "0x2341", pid |-> "0x8036",
                  extra_flags |-> <<"{build.usb_flags}">>],
    due      |-> [arch |-> "sam", mcu |-> "cortex-m3", f_cpu |-> "84000000L", board |-> "SAM_DUE",
                  variant |-> "arduino_due_x", has |-> {"vid", "pid", "extra_flags"}, vid |-> "0x2341", pid |-> "0x003e",
                  extra_flags |-> <<"-D__SAM3X8E__", " ", "-mthumb", " ", "{build.usb_flags}">>],
    huzzah   |-> [arch |-> "esp8266", mcu |-> "esp8266", f_cpu |-> "80000000L", board |-> "ESP8266_ESP12",
                  variant |-> "adafruit", has |-> {}, vid |-> "", pid |-> "", extra_flags |-> <<>>]
  ]

BoardNames == DOMAIN BoardModels

(***************************************************************************)
(* Strings that get tokenized are sequences of pieces: " " is one space,  *)
(* "'" one single quote, any other piece a run of ordinary characters.    *)
(* A token is the sequence of the pieces it is made of.                   *)
(***************************************************************************)
\* str.split(' '): cut at every single space; two spaces in a row, or an empty string, give an empty token
RECURSIVE SplitOnSpace(_, _)
SplitOnSpace(s, cur) == IF s = <<>> THEN <<cur>> ELSE IF Head(s) = " " THEN <<cur>> \o SplitOnSpace(Tail(s), <<>>) ELSE SplitOnSpace(Tail(s), cur \o <<Head(s)>>)

\* shlex.split (POSIX mode) over spaces and single quotes: runs of spaces separate tokens, a quoted
\* stretch belongs to the token it touches ('' alone is an empty token), an unclosed quote is a ValueError
RECURSIVE ShlexRun(_, _, _, _)
ShlexRun(s, cur, started, inq) ==
    IF s = <<>> THEN (IF inq THEN [ok |-> FALSE, tokens |-> <<>>] ELSE [ok |-> TRUE, tokens |-> IF started THEN <<cur>> ELSE <<>>])
    ELSE LET c == Head(s)
             r == Tail(s)
         IN IF inq THEN (IF c = "'" THEN ShlexRun(r, cur, TRUE, FALSE) ELSE ShlexRun(r, cur \o <<c>>, TRUE, TRUE))
            ELSE IF c = "'" THEN ShlexRun(r, cur, TRUE, TRUE)
            ELSE IF c = " " THEN (IF started THEN LET rest == ShlexRun(r, <<>>, FALSE, FALSE) IN [ok |-> rest.ok, tokens |-> <<cur>> \o rest.tokens]
                                  ELSE ShlexRun(r, <<>>, FALSE, FALSE))
            ELSE ShlexRun(r, cur \o <<c>>, TRUE, FALSE)

ShlexSplit(s) == ShlexRun(s, <<>>, FALSE, FALSE)

\* the pieces a --cppflags argument is made of in this model
ArgPieces == {"-DFOO=1", " ", "'"}

CppflagsArgs == StringsUpTo(ArgPieces, MaxArgLen)

(***************************************************************************)
(* The filesystem.  One Arduino distribution directory and one project.   *)
(***************************************************************************)
DistDir == <<"dist">>

\* self.e.src_dir, self.e.lib_dir, self.e.build_dir of the project
SrcDir == <<"src">>

LibDir == <<"lib">>

BuildDir == <<".build">>

\* names a library directory may have, in os.listdir order
LibNames == <<"Servo", "Wire">>

Basename(path) == path[Len(path)]

\* the entries of a directory that are directories, by the path of the directory: the library
\* trees of this model (a library root is a directory named after the library)
DirEntries(dir) ==
    LET n == Len(dir)
    IN IF n >= 1 /\ dir[n] = "Servo" THEN <<"arch", "examples", "utility">>
       ELSE IF n >= 2 /\ dir[n-1] = "Servo" /\ dir[n] = "arch" THEN <<"avr", "default", "sam">>
       ELSE IF n >= 3 /\ dir[n-2] = "Servo" /\ dir[n-1] = "arch" /\ dir[n] = "sam" THEN <<"extras", "dsp">>
       ELSE IF n >= 1 /\ dir[n] = "Wire" THEN <<"arch", "extras", "utility">>
       ELSE IF n >= 2 /\ dir[n-1] = "Wire" /\ dir[n] = "arch" THEN <<"avr">>
       ELSE <<>>

\* ino.utils.list_subdirs(dirname, recursive, exclude, include): the subdirectories of dirname whose
\* names are not excluded (and are included, when include is given); with recursive, followed by
\* the same listing of each of them
RECURSIVE ListSubdirsOf(_, _, _, _, _)
ListSubdirsOf(dirname, entries, recursive, exclude, include) ==
    LET names == SelectSeq(entries, LAMBDA x : x \notin exclude /\ (include = {} \/ x \in include))
        dirs == [n \in 1..Len(names) |-> dirname \o <<names[n]>>]
    IN IF recursive
       THEN dirs \o Flatten([n \in 1..Len(dirs) |-> ListSubdirsOf(dirs[n], DirEntries(dirs[n]), TRUE, exclude, {})])
       ELSE dirs

list_subdirs(dirname, recursive, exclude, include) == ListSubdirsOf(dirname, DirEntries(dirname), recursive, exclude, include)

VARIABLES
    \* inputs of the run: args.board_model, self.e.arduino_lib_version, args.cppflags
    board_model, arduino_lib_version, args_cppflags,
    \* the library directories present in <project>/lib and in <dist>/libraries (sets of names)
    lib_entries, libraries_entries,
    \* dependency listings make has written so far: directory -> set of lines
    listing,
    \* position in Build.run, the abort raised (if any), and the previous run's library order
    pc, failure, prev_used_libs,
    \* the environment self.e: resolved directories and tools, flags, deps, used_libs
    e, cppflags, deps, e_used_libs,
    \* observable effects: filesystem lookups performed, and makefiles handed to make with the exit
    \* status make returned, in order
    probes, makes,
    \* discover's position in toolset
    tool_idx,
    \* locals of scan_dependencies
    lib_dirs, inc_flags, used_libs, scanned_libs, pass_libs, passes, lib, dep_libs, ulibs, k, i

inputs == <<board_model, arduino_lib_version, args_cppflags, lib_entries, libraries_entries>>

scan_locals == <<lib_dirs, inc_flags, used_libs, scanned_libs, pass_libs, passes, lib, dep_libs, ulibs, k, i>>

vars == <<inputs, listing, pc, failure, prev_used_libs, e, cppflags, deps, e_used_libs, probes, makes, tool_idx, scan_locals>>

board == BoardModels[board_model]

\* the abort a run ended with: its kind and, for a failed make, make's exit status
Failure(kind, code) == [kind |-> kind, code |-> code]

NoFailure == Failure("none", 0)

\* the value of an environment key that was never set
Unset == <<>>

EnvKeys == {"arduino_core_dir", "arduino_libraries_dir", "arduino_system_dir", "arduino_variants_dir",
            "make", "cc", "cxx", "ar", "ld", "objcopy"}

(***************************************************************************)
(* Build.discover                                                          *)
(***************************************************************************)
\* Environment.find_arduino_dir / find_arduino_tool: look for dist/<parts> (holding one of the
\* items); the path is stored under the key when found, the run aborts when it is not
Find(key, path, next_pc) ==
    /\ probes' = Append(probes, key)
    /\ \E found \in BOOLEAN :
          IF found
          THEN /\ e' = [e EXCEPT ![key] = path]
               /\ pc' = next_pc
               /\ UNCHANGED failure
          ELSE /\ pc' = "abort"
               /\ failure' = Failure("NotFound", 0)
               /\ UNCHANGED e

DiscoverUnchanged == UNCHANGED <<inputs, listing, prev_used_libs, cppflags, deps, e_used_libs, makes, scan_locals>>

\* line 123: the directory of the core library of an architecture
CoreDirOf(arch) == DistDir \o <<"hardware", "arduino", arch, "cores", "arduino">>

\* line 136: the directory of the variants of an architecture
VariantsDirOf(arch) == DistDir \o <<"hardware", "arduino", arch, "variants">>

\* lines 122-125
FindCoreDir ==
    /\ pc = "discover"
    /\ Find("arduino_core_dir", CoreDirOf(board.arch), "find_libraries")
    /\ UNCHANGED tool_idx
    /\ DiscoverUnchanged

\* lines 127-128
FindLibrariesDir ==
    /\ pc = "find_libraries"
    /\ Find("arduino_libraries_dir", DistDir \o <<"libraries">>, "find_system")
    /\ UNCHANGED tool_idx
    /\ DiscoverUnchanged

\* lines 130-132
FindSystemDir ==
    /\ pc = "find_system"
    /\ IF board.arch \in {"sam"}
       THEN Find("arduino_system_dir", DistDir \o <<"hardware", "arduino", board.arch, "system">>, "find_variants")
       ELSE pc' = "find_variants" /\ UNCHANGED <<e, failure, probes>>
    /\ UNCHANGED tool_idx
    /\ DiscoverUnchanged

\* lines 134-137
FindVariantsDir ==
    /\ pc = "find_variants"
    /\ IF arduino_lib_version.major # 0
       THEN Find("arduino_variants_dir", VariantsDirOf(board.arch), "check_arch")
       ELSE pc' = "check_arch" /\ UNCHANGED <<e, failure, probes>>
    /\ UNCHANGED tool_idx
    /\ DiscoverUnchanged

\* lines 139-146: (tool_key, tool_binary, arch_override); args.make is its default 'make', the
\* other tool arguments their default None
toolset == <<
    [key |-> "make", binary |-> <<"make">>, arch_override |-> <<"avr">>],
    [key |-> "cc", binary |-> <<>>, arch_override |-> <<>>],
    [key |-> "cxx", binary |-> <<>>, arch_override |-> <<>>],
    [key |-> "ar", binary |-> <<>>, arch_override |-> <<>>],
    [key |-> "ld", binary |-> <<>>, arch_override |-> <<>>],
    [key |-> "objcopy", binary |-> <<>>, arch_override |-> <<>>] >>

\* lines 148-172
tools_arch_mapping == [
    avr |-> [dirname |-> "avr", tool_prefix |-> "avr-",
             tools |-> [make |-> "make", cc |-> "gcc", cxx |-> "g++", ar |-> "ar", ld |-> "gcc", objcopy |-> "objcopy"]],
    sam |-> [dirname |-> "g++_arm_none_eabi", tool_prefix |-> "arm-none-eabi-",
             tools |-> [cc |-> "gcc", cxx |-> "g++", ar |-> "ar", ld |-> "g++", objcopy |-> "objcopy"]] ]

\* lines 174-177
CheckArch ==
    /\ pc = "check_arch"
    /\ IF board.arch \notin DOMAIN tools_arch_mapping
       THEN pc' = "abort" /\ failure' = Failure("UnknownArchitecture", 0)
       ELSE pc' = "find_tool" /\ UNCHANGED failure
    /\ tool_idx' = 1
    /\ UNCHANGED <<e, probes>>
    /\ DiscoverUnchanged

\* lines 179-184, one turn of the loop over toolset
FindTool ==
    /\ pc = "find_tool"
    /\ LET arch_info == tools_arch_mapping[board.arch]
           tool == toolset[tool_idx]
           actual_tool_binary == IF tool.binary # <<>> THEN tool.binary ELSE <<arch_info.tool_prefix, arch_info.tools[tool.key]>>
           dirname == IF tool.arch_override = <<>> THEN <<arch_info.dirname>> ELSE tool.arch_override
       IN Find(tool.key, DistDir \o <<"hardware", "tools">> \o dirname \o <<"bin">> \o actual_tool_binary,
               IF tool_idx = Len(toolset) THEN "setup_flags" ELSE "find_tool")
    /\ tool_idx' = IF tool_idx = Len(toolset) THEN tool_idx ELSE tool_idx + 1
    /\ DiscoverUnchanged

(***************************************************************************)
(* Build.setup_flags                                                       *)
(***************************************************************************)
\* self.e.platform_settings()[arch]['compiler']['cpp']['flags'], a string of pieces
PlatformCppFlags(arch) == IF arch = "sam" THEN <<"-g", " ", "-Os", " ", "-mthumb">> ELSE <<"-g", " ", "-Os">>

\* str.upper() on the architecture names
Upper(arch) == [avr |-> "AVR", sam |-> "SAM", esp8266 |-> "ESP8266"][arch]

\* lines 189-200: the hard-coded flags
MandatoryFlags ==
    LET mcu_key == IF board.arch \in {"sam"} THEN "-mcpu=" ELSE "-mmcu="
    IN << <<mcu_key, board.mcu>>,
          <<"-DF_CPU=", board.f_cpu>>,
          <<"-DARDUINO=", arduino_lib_version.as_int>>,
          <<"-DARDUINO_", board.board>>,
          <<"-DARDUINO_ARCH_", Upper(board.arch)>>,
          <<"-I">> \o e["arduino_core_dir"] >>

\* line 203: the user's --cppflags, tokenized
UserFlags(arg) == ShlexSplit(arg).tokens

\* lines 205-206
PlatformFlags == SplitOnSpace(PlatformCppFlags(board.arch), <<>>)

\* lines 211-216
SystemFlags ==
    IF board.arch \in {"sam"}
    THEN LET system_dir == e["arduino_system_dir"]
         IN << <<"-I">> \o system_dir \o <<"libsam">>,
               <<"-I">> \o system_dir \o <<"CMSIS", "CMSIS", "Include", "">>,
               <<"-I">> \o system_dir \o <<"CMSIS", "Device", "ATMEL", "">> >>
    ELSE <<>>

\* lines 218-223
UsbFlags ==
    (IF "vid" \in board.has THEN << <<"-DUSB_VID=", board.vid>> >> ELSE <<>>)
    \o (IF "pid" \in board.has THEN << <<"-DUSB_PID=", board.pid>> >> ELSE <<>>)
    \o (IF board.arch \in {"sam"} THEN << <<"-DUSBCON">> >> ELSE <<>>)

\* lines 225-228 (no token of a split on spaces holds a space for strip() to remove)
ExtraFlags ==
    IF "extra_flags" \in board.has
    THEN SelectSeq(SplitOnSpace(board.extra_flags, <<>>), LAMBDA f : f \notin {<<"{build.usb_flags}">>})
    ELSE <<>>

\* lines 230-233
VariantFlags ==
    IF arduino_lib_version.major # 0
    THEN << <<"-I">> \o e["arduino_variants_dir"] \o <<board.variant>> >>
    ELSE <<>>

\* lines 193-233, the order in which setup_flags puts cppflags together
AssembleCppflags(mandatory, user, platform, system, usb, extra, variant) ==
    mandatory \o user \o platform \o system \o usb \o extra \o variant

\* Build.setup_flags as far as cppflags goes (cflags, cxxflags, ldflags, ld_pre, ld_post and names
\* are written here and read by the templates only).  An unclosed quote in --cppflags ends the run
\* with shlex's ValueError.
SetupFlags ==
    /\ pc = "setup_flags"
    /\ IF ShlexSplit(args_cppflags).ok
       THEN /\ cppflags' = AssembleCppflags(MandatoryFlags, UserFlags(args_cppflags), PlatformFlags, SystemFlags,
                                            UsbFlags, ExtraFlags, VariantFlags)
            /\ pc' = "create_jinja"
            /\ UNCHANGED failure
       ELSE /\ cppflags' = MandatoryFlags
            /\ pc' = "abort"
            /\ failure' = Failure("ValueError", 0)
    /\ UNCHANGED <<inputs, listing, prev_used_libs, e, deps, e_used_libs, probes, makes, tool_idx, scan_locals>>

\* Build.create_jinja (line 422): builds the template environment, no state of the model
CreateJinja ==
    /\ pc = "create_jinja"
    /\ pc' = "make_sketch"
    /\ UNCHANGED <<inputs, listing, prev_used_libs, e, cppflags, failure, deps, e_used_libs, probes, makes, tool_idx, scan_locals>>

(***************************************************************************)
(* Build.make                                                              *)
(***************************************************************************)
\* exit statuses of make
ExitCodes == {0, 1, 2}

\* the mutant of Make that goes on whatever make's exit status is
MakeIgnoringStatus(makefile, ret, next_pc) ==
    /\ makes' = Append(makes, [makefile |-> makefile, ret |-> ret])
    /\ pc' = next_pc
    /\ UNCHANGED failure

\* lines 321-325: render the makefile, run make on it, abort on a nonzero exit status
Make(makefile, ret, next_pc) ==
    /\ makes' = Append(makes, [makefile |-> makefile, ret |-> ret])
    /\ IF ret # 0
       THEN pc' = "abort" /\ failure' = Failure("MakeFailed", ret)
       ELSE pc' = next_pc /\ UNCHANGED failure

\* line 423
MakeSketch ==
    /\ pc = "make_sketch"
    /\ \E ret \in ExitCodes : Make("Makefile.sketch", ret, "scan_dependencies")
    /\ UNCHANGED <<inputs, listing, prev_used_libs, e, cppflags, deps, e_used_libs, probes, tool_idx, scan_locals>>

(***************************************************************************)
(* Build.recursive_inc_lib_flags                                           *)
(***************************************************************************)
lib_excludes == {"extras", "examples"}

IncFlag(d) == <<"-I">> \o d

\* the mutant of SubdirIncFlags that treats arch as any other subdirectory
SubdirIncFlagsUnfiltered(subdir, board_arch) ==
    <<IncFlag(subdir)>>
    \o [n \in 1..Len(list_subdirs(subdir, TRUE, lib_excludes, {})) |-> IncFlag(list_subdirs(subdir, TRUE, lib_excludes, {})[n])]

\* lines 342-353: the flags of one immediate subdirectory of a library
SubdirIncFlags(subdir, board_arch) ==
    IF Basename(subdir) = "arch"
    THEN LET by_arch == list_subdirs(subdir, FALSE, {}, {board_arch})
             arch_subdir == IF by_arch # <<>> THEN by_arch ELSE list_subdirs(subdir, FALSE, {}, {"default"})
         IN IF arch_subdir # <<>>
            THEN <<IncFlag(arch_subdir[1])>>
                 \o [n \in 1..Len(list_subdirs(arch_subdir[1], TRUE, lib_excludes, {})) |-> IncFlag(list_subdirs(arch_subdir[1], TRUE, lib_excludes, {})[n])]
            ELSE <<>>
    ELSE <<IncFlag(subdir)>>
         \o [n \in 1..Len(list_subdirs(subdir, TRUE, lib_excludes, {})) |-> IncFlag(list_subdirs(subdir, TRUE, lib_excludes, {})[n])]

\* lines 333-355
recursive_inc_lib_flags(libdirs, board_arch) ==
    Flatten([n \in 1..Len(libdirs) |->
        <<IncFlag(libdirs[n])>>
        \o Flatten([m \in 1..Len(list_subdirs(libdirs[n], FALSE, lib_excludes, {})) |->
                      SubdirIncFlags(list_subdirs(libdirs[n], FALSE, lib_excludes, {})[m], board_arch)])])

(***************************************************************************)
(* Build._scan_dependencies                                                *)
(***************************************************************************)
\* A line of a dependency listing names one file; lead tells whether white space precedes the
\* file name on the line (it does for every prerequisite, not for the target).

\* the listing make writes for the sources of dir when they include headers of the libraries inc:
\* the target, dir's own source file and one header of each library
ListingOf(dir, inc) ==
    {[lead |-> FALSE, path |-> BuildDir \o <<Basename(dir), "main.o">>],
     [lead |-> TRUE, path |-> dir \o <<"main.cpp">>]}
    \cup {[lead |-> TRUE, path |-> l \o <<"header.h">>] : l \in inc}

\* line 366: re.compile(r'\s' + lib + re.escape(os.path.sep)).search(line): white space, then the
\* path of lib, then a separator (the names of this model hold no regex metacharacter)
RegexSearch(l, line) ==
    /\ line.lead
    /\ Len(line.path) > Len(l)
    /\ SubSeq(line.path, 1, Len(l)) = l

\* the mutant of ParseListing that forgets `lib != dir'
ParseListingNoSelfCheck(lines, dir, libdirs) == {l \in Range(libdirs) : \E line \in lines : RegexSearch(l, line)}

\* lines 366-374: the libraries of lib_dirs that some line of the listing matches, dir itself excepted
ParseListing(lines, dir, libdirs) == {l \in Range(libdirs) : l # dir /\ \E line \in lines : RegexSearch(l, line)}

\* lines 358-360 and 368: make writes the listing of dir (the one on disk from an earlier run of
\* this snapshot, or any listing when dir is read for the first time)
ScanDir(dir, next_pc) ==
    /\ \E ret \in ExitCodes : Make("Makefile.deps", ret, next_pc)
    /\ IF dir \in DOMAIN listing
       THEN UNCHANGED listing
       ELSE \E inc \in SUBSET (Range(lib_dirs) \ {dir}) : listing' = [d \in DOMAIN listing \cup {dir} |-> IF d = dir THEN ListingOf(dir, inc) ELSE listing[d]]
    /\ deps' = IF pc' = "abort" THEN deps ELSE Append(deps, BuildDir \o <<Basename(dir), "dependencies.d">>)

(***************************************************************************)
(* Build.scan_dependencies                                                 *)
(***************************************************************************)
\* the subdirectories of LibDir / of the libraries directory, in os.listdir order
EntryPaths(parent, entries) ==
    LET names == SelectSeq(LibNames, LAMBDA x : x \in entries)
    IN [n \in 1..Len(names) |-> parent \o <<names[n]>>]

\* lines 382-385
LibDirs ==
    <<e["arduino_core_dir"]>>
    \o EntryPaths(LibDir, lib_entries)
    \o EntryPaths(e["arduino_libraries_dir"], libraries_entries)
    \o <<e["arduino_variants_dir"] \o <<board.variant>> >>

\* lines 377-387.  With an Arduino older than 1.0 (major 0) discover never set arduino_variants_dir,
\* and line 385 ends the run with the environment's AttributeError.
ScanBegin ==
    /\ pc = "scan_dependencies"
    /\ deps' = <<>>
    /\ IF e["arduino_variants_dir"] = Unset
       THEN /\ pc' = "abort"
            /\ failure' = Failure("AttributeError", 0)
            /\ UNCHANGED <<lib_dirs, inc_flags>>
       ELSE /\ lib_dirs' = LibDirs
            /\ inc_flags' = recursive_inc_lib_flags(LibDirs, board.arch)
            /\ pc' = "scan_src"
            /\ UNCHANGED failure
    /\ UNCHANGED <<inputs, listing, prev_used_libs, e, cppflags, e_used_libs, probes, makes, tool_idx>>
    /\ UNCHANGED <<used_libs, scanned_libs, pass_libs, passes, lib, dep_libs, ulibs, k, i>>

\* lines 394 and 398: used_libs = list(<set>), in any order; scanned_libs = set()
ScanSources ==
    /\ pc = "scan_src"
    /\ ScanDir(SrcDir, "while")
    /\ IF pc' = "abort"
       THEN UNCHANGED <<used_libs, scanned_libs>>
       ELSE /\ used_libs' \in Orderings(ParseListing(listing'[SrcDir], SrcDir, lib_dirs))
            /\ scanned_libs' = {}
    /\ UNCHANGED <<inputs, prev_used_libs, e, cppflags, e_used_libs, probes, tool_idx>>
    /\ UNCHANGED <<lib_dirs, inc_flags, pass_libs, passes, lib, dep_libs, ulibs, k, i>>

\* the mutant of LoopAgain that stops after the first pass
LoopAgainOnce(scanned, used) == scanned # Range(used) /\ passes = 0

\* line 399: while scanned_libs != set(used_libs)
LoopAgain(scanned, used) == scanned # Range(used)

\* lines 399-400: the test of the while loop; a pass takes set(used_libs) - scanned_libs as it is now
While ==
    /\ pc = "while"
    /\ IF LoopAgain(scanned_libs, used_libs)
       THEN /\ pass_libs' = Range(used_libs) \ scanned_libs
            /\ passes' = passes + 1
            /\ pc' = "for"
       ELSE /\ pc' = "scan_end"
            /\ UNCHANGED <<pass_libs, passes>>
    /\ UNCHANGED <<inputs, listing, prev_used_libs, e, cppflags, failure, deps, e_used_libs, probes, makes, tool_idx>>
    /\ UNCHANGED <<lib_dirs, inc_flags, used_libs, scanned_libs, lib, dep_libs, ulibs, k, i>>

\* lines 400-404: the next library of the pass, in any order; its scan; the relocation loop starts
\* on a copy of used_libs
For ==
    /\ pc = "for"
    /\ IF pass_libs = {}
       THEN /\ pc' = "while"
            /\ UNCHANGED <<listing, failure, deps, makes, pass_libs, lib, dep_libs, ulibs, k, i>>
       ELSE \E next \in pass_libs :
            /\ ScanDir(next, "relocate")
            /\ IF pc' = "abort"
               THEN UNCHANGED <<pass_libs, lib, dep_libs, ulibs, k, i>>
               ELSE /\ lib' = next
                    /\ pass_libs' = pass_libs \ {next}
                    /\ dep_libs' = ParseListing(listing'[next], next, lib_dirs)
                    /\ ulibs' = used_libs
                    /\ k' = 1
                    /\ i' = 0
    /\ UNCHANGED <<inputs, prev_used_libs, e, cppflags, e_used_libs, probes, tool_idx>>
    /\ UNCHANGED <<lib_dirs, inc_flags, used_libs, scanned_libs, passes>>

\* list.pop(i) followed by list.append of the popped element (i counts from 0)
PopAppend(s, n) == SubSeq(s, 1, n) \o SubSeq(s, n + 2, Len(s)) \o <<s[n + 1]>>

\* the mutant of MoveToTail that leaves the list alone
MoveToTailNot(s, n) == s

\* line 407: used_libs.append(used_libs.pop(i))
MoveToTail(s, n) == PopAppend(s, n)

\* the mutant of DropDep that keeps the relocated library in dep_libs
DropDepNot(deps_, ulib) == deps_

\* line 408: dep_libs.remove(ulib)
DropDep(deps_, ulib) == deps_ \ {ulib}

\* the mutant of Relocate that moves a dependency only when it stands before lib
RelocatePrecedingOnly ==
    /\ pc = "relocate"
    /\ IF k > Len(ulibs)
       THEN /\ pc' = "extend"
            /\ UNCHANGED <<used_libs, dep_libs, k, i>>
       ELSE /\ IF ulibs[k] \in dep_libs /\ k < IndexOf(ulibs, lib)
               THEN /\ used_libs' = MoveToTail(used_libs, i)
                    /\ dep_libs' = DropDep(dep_libs, ulibs[k])
                    /\ UNCHANGED i
               ELSE /\ i' = i + 1
                    /\ UNCHANGED <<used_libs, dep_libs>>
            /\ k' = k + 1
            /\ UNCHANGED pc
    /\ UNCHANGED <<inputs, listing, prev_used_libs, e, cppflags, failure, deps, e_used_libs, probes, makes, tool_idx>>
    /\ UNCHANGED <<lib_dirs, inc_flags, scanned_libs, pass_libs, passes, lib, ulibs>>

\* lines 404-410: one turn of `for ulib in used_libs[:]'
Relocate ==
    /\ pc = "relocate"
    /\ IF k > Len(ulibs)
       THEN /\ pc' = "extend"
            /\ UNCHANGED <<used_libs, dep_libs, k, i>>
       ELSE /\ IF ulibs[k] \in dep_libs
               THEN /\ used_libs' = MoveToTail(used_libs, i)
                    /\ dep_libs' = DropDep(dep_libs, ulibs[k])
                    /\ UNCHANGED i
               ELSE /\ i' = i + 1
                    /\ UNCHANGED <<used_libs, dep_libs>>
            /\ k' = k + 1
            /\ UNCHANGED pc
    /\ UNCHANGED <<inputs, listing, prev_used_libs, e, cppflags, failure, deps, e_used_libs, probes, makes, tool_idx>>
    /\ UNCHANGED <<lib_dirs, inc_flags, scanned_libs, pass_libs, passes, lib, ulibs>>

\* the mutant of MarkScanned that forgets the library
MarkScannedNot(scanned, l) == scanned

\* line 414: scanned_libs.add(lib)
MarkScanned(scanned, l) == scanned \cup {l}

\* the mutant of ExtendWith that puts the new dependencies in front
ExtendWithInFront(used, new) == new \o used

\* line 413: used_libs.extend(dep_libs)
ExtendWith(used, new) == used \o new

\* lines 413-414: the new dependencies go to the tail, in any order
Extend ==
    /\ pc = "extend"
    /\ \E new \in Orderings(dep_libs) : used_libs' = ExtendWith(used_libs, new)
    /\ scanned_libs' = MarkScanned(scanned_libs, lib)
    /\ pc' = "for"
    /\ UNCHANGED <<inputs, listing, prev_used_libs, e, cppflags, failure, deps, e_used_libs, probes, makes, tool_idx>>
    /\ UNCHANGED <<lib_dirs, inc_flags, pass_libs, passes, lib, dep_libs, ulibs, k, i>>

\* lines 416-417
ScanEnd ==
    /\ pc = "scan_end"
    /\ e_used_libs' = used_libs
    /\ cppflags' = cppflags \o recursive_inc_lib_flags(used_libs, board.arch)
    /\ pc' = "make_final"
    /\ UNCHANGED <<inputs, listing, prev_used_libs, e, failure, deps, probes, makes, tool_idx, scan_locals>>

\* line 425
MakeFinal ==
    /\ pc = "make_final"
    /\ \E ret \in ExitCodes : Make("Makefile", ret, "done")
    /\ UNCHANGED <<inputs, listing, prev_used_libs, e, cppflags, deps, e_used_libs, probes, tool_idx, scan_locals>>

(***************************************************************************)
(* Runs                                                                    *)
(***************************************************************************)
NotRun == [ran |-> FALSE, libs |-> <<>>]

EmptyEnv == [key \in EnvKeys |-> Unset]

\* the state a run of the command starts in: a fresh environment, nothing done yet
FreshRun ==
    /\ pc = "discover"
    /\ failure = NoFailure
    /\ e = EmptyEnv
    /\ cppflags = <<>>
    /\ deps = <<>>
    /\ e_used_libs = <<>>
    /\ probes = <<>>
    /\ makes = <<>>
    /\ tool_idx = 1
    /\ lib_dirs = <<>>
    /\ inc_flags = <<>>
    /\ used_libs = <<>>
    /\ scanned_libs = {}
    /\ pass_libs = {}
    /\ passes = 0
    /\ lib = <<>>
    /\ dep_libs = {}
    /\ ulibs = <<>>
    /\ k = 1
    /\ i = 0

\* the same, of the next state
StartRun ==
    /\ pc' = "discover"
    /\ failure' = NoFailure
    /\ e' = EmptyEnv
    /\ cppflags' = <<>>
    /\ deps' = <<>>
    /\ e_used_libs' = <<>>
    /\ probes' = <<>>
    /\ makes' = <<>>
    /\ tool_idx' = 1
    /\ lib_dirs' = <<>>
    /\ inc_flags' = <<>>
    /\ used_libs' = <<>>
    /\ scanned_libs' = {}
    /\ pass_libs' = {}
    /\ passes' = 0
    /\ lib' = <<>>
    /\ dep_libs' = {}
    /\ ulibs' = <<>>
    /\ k' = 1
    /\ i' = 0

\* the versions of the Arduino software: 0022 and 1.0.5
LibVersions == {[major |-> 0, as_int |-> "22"], [major |-> 1, as_int |-> "105"]}

\* a run on one of the boards, versions and --cppflags given, with at most max_libs library
\* directories, and with the dependency listings on_disk left by an earlier build
InitWith(boards, versions, args, max_libs, on_disk) ==
    /\ board_model \in boards
    /\ arduino_lib_version \in versions
    /\ args_cppflags \in args
    /\ lib_entries \in SUBSET Range(LibNames)
    /\ libraries_entries \in SUBSET Range(LibNames)
    /\ Cardinality(lib_entries) + Cardinality(libraries_entries) <= max_libs
    /\ listing = on_disk
    /\ prev_used_libs = NotRun
    /\ FreshRun

NewLibVersion == [major |-> 1, as_int |-> "105"]

\* the resolver at large: one board, no --cppflags, every choice of library directories and of
\* dependency listings
Init == InitWith({"uno"}, {NewLibVersion}, {<<>>}, MaxLibs, << >>)

\* every board, version and --cppflags argument, on a project that has no library directory
InitFlags == InitWith(BoardNames, LibVersions, CppflagsArgs, 0, << >>)

\* a project whose lib directory holds a library of the name of a standard library; the listings
\* of the core and of the variant are on disk, and name no library
InitSameName ==
    /\ InitWith({"uno"}, {NewLibVersion}, {<<>>}, 2,
                [d \in {CoreDirOf("avr"), VariantsDirOf("avr") \o <<"standard">>} |-> ListingOf(d, {})])
    /\ lib_entries = {"Servo"}
    /\ libraries_entries = {"Servo"}

\* the command is run once more on the same project, boards and files; the dependency listings
\* of the first run are on disk
Rerun ==
    /\ pc = "done"
    /\ ~prev_used_libs.ran
    /\ prev_used_libs' = [ran |-> TRUE, libs |-> e_used_libs]
    /\ StartRun
    /\ UNCHANGED <<inputs, listing>>

Next ==
    \/ FindCoreDir
    \/ FindLibrariesDir
    \/ FindSystemDir
    \/ FindVariantsDir
    \/ CheckArch
    \/ FindTool
    \/ SetupFlags
    \/ CreateJinja
    \/ MakeSketch
    \/ ScanBegin
    \/ ScanSources
    \/ While
    \/ For
    \/ Relocate
    \/ Extend
    \/ ScanEnd
    \/ MakeFinal

\* one run or two
NextRerun ==
    \/ Next
    \/ Rerun

Spec == Init /\ [][Next]_vars

RerunSpec == Init /\ [][NextRerun]_vars

FlagsSpec == InitFlags /\ [][Next]_vars

SameNameSpec == InitSameName /\ [][Next]_vars

(***************************************************************************)
(* The scan relation, as far as the run has read it                        *)
(***************************************************************************)
\* what _scan_dependencies returns for a directory whose listing was read
Scan(d) == IF d \in DOMAIN listing THEN ParseListing(listing[d], d, lib_dirs) ELSE {}

\* the libraries reachable from those of S through the scan relation, S included
RECURSIVE ReachFrom(_)
ReachFrom(S) == LET T == S \cup UNION {Scan(x) : x \in S} IN IF T = S THEN S ELSE ReachFrom(T)

Acyclic == \A l \in Range(lib_dirs) : l \notin ReachFrom(Scan(l))

\* two different paths lead from a to b: they part at some c, on two edges that both lead to b
Diamond(a, b) == \E c \in ReachFrom({a}) : \E d1, d2 \in Scan(c) : d1 # d2 /\ b \in ReachFrom({d1}) /\ b \in ReachFrom({d2})

NoDiamond == \A a, b \in Range(lib_dirs) : ~Diamond(a, b)

\* the while loop of scan_dependencies is over: used_libs is what resolve returns
Resolved == pc \in {"scan_end", "make_final", "done"}

\* a scan of lib has just been completed (lines 401-414)
JustScanned == pc = "for" /\ lib # <<>>

Before(s, a, b) == IndexOf(s, a) < IndexOf(s, b)

(***************************************************************************)
(* C1                                                                      *)
(***************************************************************************)
\* C1: when the scan relation among the libraries is acyclic and has no diamond, every returned
\* library comes before each returned library its scan reports
C1_LinkOrder ==
    (Resolved /\ Acyclic /\ NoDiamond)
        => \A a, b \in Range(used_libs) : b \in Scan(a) => Before(used_libs, a, b)

(***************************************************************************)
(* C2                                                                      *)
(***************************************************************************)
\* the project uses exactly a and b, b's scan reports a, a's scan reports nothing
UsesTwo(a, b) == a # b /\ SrcDir \in DOMAIN listing /\ Scan(SrcDir) = {a, b} /\ b \in DOMAIN listing /\ Scan(b) = {a} /\ a \in DOMAIN listing /\ Scan(a) = {}

\* C2: when the project uses exactly A and B, B's scan reports A and A's scan reports nothing,
\* resolve returns [B, A]
C2_DependencyRelocated ==
    Resolved => \A a, b \in Range(lib_dirs) : UsesTwo(a, b) => used_libs = <<b, a>>

C2_Witness == pc = "done" /\ \E a, b \in Range(lib_dirs) : UsesTwo(a, b) /\ used_libs = <<b, a>>

(***************************************************************************)
(* C3                                                                      *)
(***************************************************************************)
\* the project uses only a, a's scan reports only b, b's scan reports nothing
UsesOne(a, b) == a # b /\ SrcDir \in DOMAIN listing /\ Scan(SrcDir) = {a} /\ a \in DOMAIN listing /\ Scan(a) = {b} /\ b \in DOMAIN listing /\ Scan(b) = {}

\* the libraries the scan of lib reported that were not in used_libs when the scan began
NewlyDiscovered == Scan(lib) \ Range(ulibs)

\* C3: the libraries first discovered while scanning L make up the tail of used_libs after the
\* scan, behind L and everything that was there; and when the project uses only A, A's scan
\* reports B and B's scan nothing, resolve returns [A, B]
C3_NewAppended ==
    /\ JustScanned =>
          /\ Len(used_libs) = Len(ulibs) + Cardinality(NewlyDiscovered)
          /\ {used_libs[n] : n \in (Len(ulibs) + 1)..Len(used_libs)} = NewlyDiscovered
          /\ \A new \in NewlyDiscovered : Before(used_libs, lib, new)
    /\ Resolved => \A a, b \in Range(lib_dirs) : UsesOne(a, b) => used_libs = <<a, b>>

C3_Witness == pc = "done" /\ \E a, b \in Range(lib_dirs) : UsesOne(a, b) /\ used_libs = <<a, b>>

(***************************************************************************)
(* C4                                                                      *)
(***************************************************************************)
\* the identifiers (base names) of a list of library directories
Identifiers(libs) == [n \in 1..Len(libs) |-> Basename(libs[n])]

\* C4: used_libs never holds two libraries of the same identifier (base name)
C4_NoDuplicateIdentifier == NoDup(Identifiers(used_libs))

(***************************************************************************)
(* C5                                                                      *)
(***************************************************************************)
\* the libraries reachable from the project, by the listings read so far
Reachable == ReachFrom(Scan(SrcDir))

InLoop == pc \in {"while", "for", "relocate", "extend"}

\* how far the current pass is from its next scan, counted down: the test of the while loop, the
\* choice of a library, the turns of the relocation loop, the append
StepsLeft ==
    CASE pc = "for" /\ pass_libs = {} -> Len(lib_dirs) + 5
      [] pc = "while" -> Len(lib_dirs) + 4
      [] pc = "for" /\ pass_libs # {} -> Len(lib_dirs) + 3
      [] pc = "relocate" -> Len(ulibs) + 2 - k
      [] pc = "extend" -> 0
      [] OTHER -> 0

\* a measure of the work the loop has left: the libraries not scanned yet, then the steps to the
\* next scan
Measure == (Len(lib_dirs) - Cardinality(scanned_libs)) * (Len(lib_dirs) + 6) + StepsLeft

\* C5: the while loop makes at most as many passes as there are libraries reachable from the
\* project; every pass begins with an unscanned library to scan and ends with more libraries
\* scanned than passes made; and the loop ends: every step of it lowers a measure that is never
\* negative
C5_Terminates ==
    /\ [](passes <= Cardinality(Reachable))
    /\ [](pc = "while" => Cardinality(scanned_libs) >= passes)
    /\ [][(pc = "while" /\ pc' = "for") => (pass_libs' # {} /\ pass_libs' \cap scanned_libs = {})]_vars
    /\ [](InLoop => Measure >= 0)
    /\ [][(InLoop /\ InLoop') => Measure' < Measure]_vars

C5_Witness == pc = "done" /\ passes >= 2 /\ passes = Cardinality(Reachable) /\ ~Acyclic

(***************************************************************************)
(* C6                                                                      *)
(***************************************************************************)
SecondRunDone == prev_used_libs.ran /\ pc = "done"

\* C6 as claimed: the second run on the same files returns the sequence the first returned,
\* whatever the orders in which the sets were listed
C6_SameOrder == SecondRunDone => e_used_libs = prev_used_libs.libs

\* C6 amended: the second run returns the libraries the first returned, each once
C6_SameLibraries ==
    SecondRunDone =>
        /\ Range(e_used_libs) = Range(prev_used_libs.libs)
        /\ Len(e_used_libs) = Len(prev_used_libs.libs)
        /\ NoDup(e_used_libs)

C6_Witness == SecondRunDone /\ Len(e_used_libs) >= 2 /\ e_used_libs # prev_used_libs.libs

(***************************************************************************)
(* C7                                                                      *)
(***************************************************************************)
Scanning == pc \in {"relocate", "extend"}

\* C7: no directory is in its own scan result, although its listing names its own files; and the
\* library being scanned is not among the dependencies that are relocated or appended: it stays
\* once in used_libs and never moves toward the tail
C7_NoSelfReference ==
    /\ \A d \in DOMAIN listing : (\E line \in listing[d] : RegexSearch(d, line)) /\ d \notin Scan(d)
    /\ Scanning => lib \notin dep_libs
    /\ (Scanning \/ JustScanned) =>
          /\ Cardinality({n \in 1..Len(used_libs) : used_libs[n] = lib}) = 1
          /\ IndexOf(used_libs, lib) <= IndexOf(ulibs, lib)

C7_Witness == pc = "extend" /\ used_libs # ulibs /\ \E line \in listing[lib] : RegexSearch(lib, line)

(***************************************************************************)
(* C8                                                                      *)
(***************************************************************************)
UnknownArch == board.arch \notin DOMAIN tools_arch_mapping

InDiscover == pc \in {"discover", "find_libraries", "find_system", "find_variants", "check_arch", "find_tool"}

\* C8: a run for a board of an unknown architecture ends in discover with the unknown-architecture
\* abort, and make is not run
C8_UnknownArchAborts ==
    UnknownArch =>
        /\ InDiscover \/ pc = "abort"
        /\ pc = "abort" => failure.kind = "UnknownArchitecture"
        /\ makes = <<>>

(***************************************************************************)
(* C9                                                                      *)
(***************************************************************************)
\* C9: for a board of an unknown architecture no directory or tool is looked up
C9_NoProbeBeforeArchCheck == UnknownArch => probes = <<>>

(***************************************************************************)
(* C10                                                                     *)
(***************************************************************************)
\* setup_flags has returned
FlagsAssembled == ~InDiscover /\ pc # "setup_flags" /\ (pc = "abort" => failure.kind \in {"MakeFailed", "AttributeError"})

DefaultFlags == Range(MandatoryFlags \o PlatformFlags \o SystemFlags \o UsbFlags \o ExtraFlags \o VariantFlags)

\* C10: every token of --cppflags comes after every default flag in cppflags
C10_UserFlagsLast ==
    FlagsAssembled =>
        \A m, n \in 1..Len(cppflags) :
            (cppflags[m] \in DefaultFlags /\ cppflags[n] \in Range(UserFlags(args_cppflags))) => m < n

(***************************************************************************)
(* C11                                                                     *)
(***************************************************************************)
\* the run was ended by make number n, which returned a nonzero exit status
AbortedByMake(n) ==
    /\ pc = "abort"
    /\ failure = Failure("MakeFailed", makes[n].ret)

\* C11: as soon as a make invocation (Makefile.sketch, a Makefile.deps scan, the final Makefile)
\* returns a nonzero exit status the run aborts with an error carrying that status, and nothing
\* is executed afterwards: a nonzero status is the status of the last invocation made, the run is
\* then aborted with it, no step is taken from an aborted run, and a run that is done has seen
\* zero from every invocation.
C11_AbortOnFirstFailure ==
    /\ [](\A n \in 1..Len(makes) : makes[n].ret # 0 => (n = Len(makes) /\ AbortedByMake(n)))
    /\ [](pc = "done" => \A n \in 1..Len(makes) : makes[n].ret = 0)
    /\ [][pc # "abort"]_vars

\* a dependency scan of a library fails after the sketch's make and two scans succeeded
C11_Witness ==
    /\ pc = "abort"
    /\ Len(makes) = 4
    /\ makes[4].makefile = "Makefile.deps"
    /\ makes[4].ret = 2
    /\ failure = Failure("MakeFailed", 2)
    /\ \A n \in 1..3 : makes[n].ret = 0

(***************************************************************************)
(* C12: recursive_inc_lib_flags on its own, for every architecture         *)
(***************************************************************************)
\* the longest list of library roots handed to recursive_inc_lib_flags
MaxIndexed == 3

\* the library roots there can be: <project>/lib/<name> and <dist>/libraries/<name>
LibraryRoots == {LibDir \o <<LibNames[n]>> : n \in 1..Len(LibNames)} \cup {DistDir \o <<"libraries", LibNames[n]>> : n \in 1..Len(LibNames)}

\* recursive_inc_lib_flags is about to be called (as at lines 387 and 417) for the board's
\* architecture, with some library roots in some order
InitIndex ==
    /\ board_model \in BoardNames
    /\ arduino_lib_version = NewLibVersion
    /\ args_cppflags = <<>>
    /\ lib_dirs \in {roots \in StringsUpTo(LibraryRoots, MaxIndexed) : NoDup(roots)}
    /\ lib_entries = {name \in Range(LibNames) : LibDir \o <<name>> \in Range(lib_dirs)}
    /\ libraries_entries = {name \in Range(LibNames) : DistDir \o <<"libraries", name>> \in Range(lib_dirs)}
    /\ listing = << >>
    /\ prev_used_libs = NotRun
    /\ pc = "index"
    /\ failure = NoFailure
    /\ e = EmptyEnv
    /\ cppflags = <<>>
    /\ deps = <<>>
    /\ e_used_libs = <<>>
    /\ probes = <<>>
    /\ makes = <<>>
    /\ tool_idx = 1
    /\ inc_flags = <<>>
    /\ used_libs = <<>>
    /\ scanned_libs = {}
    /\ pass_libs = {}
    /\ passes = 0
    /\ lib = <<>>
    /\ dep_libs = {}
    /\ ulibs = <<>>
    /\ k = 1
    /\ i = 0

\* line 387: inc_flags = self.recursive_inc_lib_flags(lib_dirs, board_arch)
IndexLibraries ==
    /\ pc = "index"
    /\ inc_flags' = recursive_inc_lib_flags(lib_dirs, board.arch)
    /\ pc' = "indexed"
    /\ UNCHANGED <<inputs, listing, failure, prev_used_libs, e, cppflags, deps, e_used_libs, probes, makes, tool_idx>>
    /\ UNCHANGED <<lib_dirs, used_libs, scanned_libs, pass_libs, passes, lib, dep_libs, ulibs, k, i>>

NextIndex == IndexLibraries

IndexSpec == InitIndex /\ [][NextIndex]_vars

\* the directories inc_flags has an include flag for
FlagPaths == {Tail(inc_flags[n]) : n \in 1..Len(inc_flags)}

\* path p lies below directory d
IsUnder(p, d) == Len(p) > Len(d) /\ SubSeq(p, 1, Len(d)) = d

\* a directory and the directories below it, those named examples or extras (and what is
\* below them) left out
RECURSIVE Subtree(_)
Subtree(dir) == {dir} \cup UNION {Subtree(dir \o <<name>>) : name \in Range(DirEntries(dir)) \ lib_excludes}

ArchDir(root) == root \o <<"arch">>

HasArch(root) == "arch" \in Range(DirEntries(root))

\* the child of root/arch the claim selects: the architecture's, else default, else none
SelectedArch(root, arch) ==
    LET children == Range(DirEntries(ArchDir(root)))
    IN IF arch \in children THEN {arch} ELSE IF "default" \in children THEN {"default"} ELSE {}

\* C12: for a library root that has a subdirectory arch, the include flags at or below arch are
\* exactly the directories of one child's subtree (the child named after the target architecture
\* if there is one, otherwise the child default, otherwise nothing), so no flag names another
\* architecture's subtree; and no flag names a directory called examples or extras.
C12_ArchFiltered ==
    inc_flags # <<>> =>
        /\ \A root \in Range(lib_dirs) :
              HasArch(root) =>
                  {p \in FlagPaths : p = ArchDir(root) \/ IsUnder(p, ArchDir(root))}
                  = UNION {Subtree(ArchDir(root) \o <<child>>) : child \in SelectedArch(root, board.arch)}
        /\ \A p \in FlagPaths : Basename(p) \notin lib_excludes

\* target sam: Servo (children avr, default, sam) gives its sam subtree, Wire (child avr only)
\* gives nothing from arch
C12_Witness ==
    /\ pc = "indexed"
    /\ board.arch = "sam"
    /\ {LibDir \o <<"Servo">>, LibDir \o <<"Wire">>} \subseteq Range(lib_dirs)
    /\ IncFlag(LibDir \o <<"Servo", "arch", "sam", "dsp">>) \in Range(inc_flags)
    /\ IncFlag(LibDir \o <<"Servo", "arch", "avr">>) \notin Range(inc_flags)

(***************************************************************************)
(* C13                                                                     *)
(***************************************************************************)
\* the relocation loop for lib is over (line 411): ulibs is used_libs as it was before the loop
Relocated == pc = "extend"

\* s with the entries of moved taken out and put at the end, both parts in the order of s
MovedToEnd(s, moved) == SelectSeq(s, LAMBDA x : x \notin moved) \o SelectSeq(s, LAMBDA x : x \in moved)

\* the entries that stand before lib and that the scan of lib reported
PrecedingDeps == {u \in Range(ulibs) : Before(ulibs, u, lib) /\ u \in Scan(lib)}

\* the entries that the scan of lib reported, wherever they stand
UsedDeps == Range(ulibs) \cap Scan(lib)

\* C13, as stated: the relocation moves to the end exactly the entries that precede lib and are
\* in the scan result, in their order, and leaves every other entry (lib, and every entry that
\* follows lib) in its place among the entries not moved.
C13_PrecedingRelocated == Relocated => used_libs = MovedToEnd(ulibs, PrecedingDeps)

\* C13, amended: the relocation moves to the end exactly the entries that are in the scan result,
\* those that follow lib included, in their order; every other entry keeps its place among the
\* entries not moved; and dep_libs is left with the libraries that were not in used_libs.
C13_UsedDepsRelocated ==
    Relocated =>
        /\ used_libs = MovedToEnd(ulibs, UsedDeps)
        /\ dep_libs = Scan(lib) \ Range(ulibs)

\* lib is followed by a dependency of its own that is followed by a library it does not depend
\* on: the dependency was moved behind that library
C13_Witness ==
    /\ Relocated
    /\ \E m, n, j \in 1..Len(ulibs) :
          /\ m < n /\ n < j
          /\ ulibs[m] = lib
          /\ ulibs[n] \in Scan(lib)
          /\ ulibs[j] \notin Scan(lib)
          /\ Before(used_libs, ulibs[j], ulibs[n])

(***************************************************************************)
(* C14                                                                     *)
(***************************************************************************)
\* C14: when resolve returns, the libraries of used_libs are the scanned ones, and they are the
\* libraries reachable from the project's directly used libraries through the scan results, no
\* more and no fewer; in every state each scanned library is in used_libs, and no step of the
\* run takes a library out of used_libs.
C14_Closure ==
    /\ [](Resolved => (Range(used_libs) = scanned_libs /\ Range(used_libs) = ReachFrom(Scan(SrcDir))))
    /\ [](scanned_libs \subseteq Range(used_libs))
    /\ [][Range(used_libs) \subseteq Range(used_libs')]_vars

\* the project uses one library directly, and two more are reached through it in two more passes
C14_Witness ==
    /\ pc = "done"
    /\ Cardinality(Scan(SrcDir)) = 1
    /\ Cardinality(Range(used_libs)) = 3
    /\ passes = 3
    /\ Range(used_libs) = ReachFrom(Scan(SrcDir))

====
